---- MODULE Spec2Model ----
(***************************************************************************)
(* Keg state-update pipeline of the beer_keg integration                   *)
(* (src/custom_compoents/__init__.py).                                     *)
(*                                                                         *)
(* Fixed-point units replace the floats of the code:                       *)
(*   weights          grams            (0.001 kg)                          *)
(*   2-decimal kg     centi-kg         (0.01 kg)    round(x, 2)            *)
(*   ounces           tenths of an oz  (0.1 oz)     round(x, 1)            *)
(*   fill percent     tenths of a %    (0.1 %)      round(x, 1)            *)
(*   temperature      hundredths of a degree C, displayed in tenths        *)
(* Decimal arithmetic is exact here; binary floating-point representation  *)
(* error of the Python floats is not modelled.                             *)
(***************************************************************************)
EXTENDS Integers, Sequences, FiniteSets, TLC, Bags

\* ------------------------------------------------------------- constants

\* KG_TO_OZ = 35.274, scaled by 1000
KG_TO_OZ == 35274

\* const.py, in grams
DEFAULT_EMPTY_WEIGHT == 4000
DEFAULT_FULL_WEIGHT == 19000
DEFAULT_POUR_THRESHOLD == 150
MAX_LOG_ENTRIES == 500

\* ----------------------------------------------------------------- bounds

\* readings handed to _publish_keg in one behaviour
MaxReadings == 3
\* records in one REST answer or one stream frame
MaxBatch == 2
\* daily resets in one behaviour
MaxDays == 1
\* restarts of the instance in one behaviour
MaxRestarts == 1
MaxPeerPours == 1
MaxEvents == 4

\* ---------------------------------------------------------------- helpers

\* Python None / a present value
None == {}
Some(v) == {v}
Val(o) == CHOOSE v \in o : TRUE

\* Python round(): the multiple of d nearest to n, ties to the even
\* multiple; the result is in units of d.
Round(n, d) ==
    LET q == n \div d
        r == n % d
    IN  IF 2 * r < d THEN q
        ELSE IF 2 * r > d THEN q + 1
        ELSE IF q % 2 = 0 THEN q ELSE q + 1

\* ----------------------------------------------------------------- inputs

Kegs == {"keg1", "keg2"}
Procs == {"poll", "stream"}
\* "poll2": a rest_poll invocation started by the interval timer while the
\* previous invocation has not returned
Invocations == Procs \cup {"poll2"}

\* a normalized reading (the dict _normalize_keg_dict returns)
Norm(k, w, t, fw) ==
    [keg_id |-> k, name |-> k, weight |-> w, temperature |-> t, full_weight |-> fw]

\* a negative weight, a drop of 0.5 kg from 19.0, drops with a third decimal,
\* a drop of exactly the default threshold (19.0 -> 18.85)
Keg1Weights == {0 - 500, 18500, 18846, 18850, 19000}

Readings ==
    {Norm("keg1", w, None, None) : w \in Keg1Weights}
    \cup {Norm("keg2", 5000, Some(425), None)}

\* the non-empty record lists one REST answer or one stream frame can carry
Batches == UNION {[1..n -> Readings] : n \in 1..MaxBatch}

\* entry.options after the float() conversions of async_setup_entry; the
\* options form accepts any float for the three numbers
EmptyMap == [k \in {} |-> 0]
DefaultOptions ==
    [empty_weight |-> DEFAULT_EMPTY_WEIGHT, default_full_weight |-> DEFAULT_FULL_WEIGHT,
     pour_threshold |-> DEFAULT_POUR_THRESHOLD, per_keg_full |-> EmptyMap]
Options ==
    { DefaultOptions,
      \* threshold 0, a full weight below some readings, keg2 overridden to the
      \* empty weight
      [empty_weight |-> DEFAULT_EMPTY_WEIGHT, default_full_weight |-> 18900,
       pour_threshold |-> 0, per_keg_full |-> [k \in {"keg2"} |-> DEFAULT_EMPTY_WEIGHT]],
      \* a negative threshold
      [empty_weight |-> DEFAULT_EMPTY_WEIGHT, default_full_weight |-> DEFAULT_FULL_WEIGHT,
       pour_threshold |-> 0 - 400, per_keg_full |-> EmptyMap] }

\* a pour record found in storage at startup
OldEntry(i) ==
    [timestamp |-> 0, keg |-> "keg1", pour_oz |-> i, weight_before |-> 1900,
     weight_after |-> 1850, temperature |-> None]
OldEntries(n) == [i \in 1..n |-> OldEntry(i)]

\* what store.async_load() can return: nothing, a foreign object, a list
Payload(kind, items) == [kind |-> kind, items |-> items]
ShortPayloads == {Payload("none", <<>>), Payload("dict", <<>>), Payload("list", <<>>)}
LongPayloads == {Payload("list", OldEntries(MAX_LOG_ENTRIES - 1)),
                 Payload("list", OldEntries(MAX_LOG_ENTRIES + 1))}

\* the installations explored: every option set over the short payloads, the
\* default options over the long ones
Installs == (Options \X ShortPayloads) \cup ({DefaultOptions} \X LongPayloads)

\* ------------------------------------------------------------------ state

VARIABLES
    empty_weight, default_full, pour_threshold, per_keg_full,  \* closure of async_setup_entry
    kegs,        \* state["kegs"]: keg_id -> runtime info
    data,        \* state["data"]: keg_id -> display record
    history,     \* state["history"]
    stored,      \* content of the history store on disk
    store_data,  \* data handed to store.async_save and not yet written
    events,      \* keg ids of the beer_keg_update events fired, in order
    pc,          \* per source: "idle" or "saving" (suspended in store.async_save)
    cur,         \* per source: the reading whose _publish_keg is suspended
    batch,       \* per source: records of the current answer/frame not yet published
    now,         \* logical clock: readings handed to _publish_keg so far
    ws,          \* stream listener: "open" (reading frames), "backoff" (in
                 \* asyncio.sleep(10) after an error) or "connecting" (in ws_connect)
    log,         \* history bookkeeping: the loaded history followed by every
                 \* pour record appended since, none removed
    day,         \* number of daily resets that have run
    ended,       \* how the earlier runs of the instance ended, oldest first:
                 \* "stop" (EVENT_HOMEASSISTANT_STOP was handled) or "kill"
    raw,         \* a record of a kegs array as json.loads returned it
    normed,      \* None, or the outcome of _normalize_keg_dict(raw)
    unloaded_at, \* None, or the number of readings received when
                 \* async_unload_entry removed the instance from hass.data
    fetched,     \* None, or the HTTP answers of the last fetch_kegs call and
                 \* what it returned
    peer_history, \* state["history"] of a second configured instance
    keg_config,  \* state["keg_config"]: keg_id -> per-keg settings
    display_units, \* state["display_units"]: unit kind -> selected unit
    prefs,       \* None, or the content of the preferences store on disk
    config_entry, \* the config entry an options flow and a setup work on (None
                 \* where the installation is given by its parsed options)
    flow,        \* None, or what the options flow returned last
    setup,       \* None, or the outcome of async_setup_entry(config_entry)
    platform,    \* None while the sensor platform's async_setup_entry is
                 \* pending, else what it found when it ran
    asked,       \* None, or the last select_option call: entity and option
    devices,     \* state["devices"]
    selected_device, \* state["selected_device"]
    written      \* keg_id -> key -> the value last set through the number entity

cfg == <<empty_weight, default_full, pour_threshold, per_keg_full>>
life == <<day, ended>>
io == <<raw, normed>>
host == <<config_entry, flow, setup, platform, asked, devices, selected_device, written>>
ext == <<unloaded_at, fetched, peer_history, keg_config, display_units, prefs, host>>
vars == <<empty_weight, default_full, pour_threshold, per_keg_full, kegs, data,
          history, stored, store_data, events, pc, cur, batch, now, ws, log, day, ended,
          raw, normed, unloaded_at, fetched, peer_history, keg_config, display_units,
          prefs, config_entry, flow, setup, platform, asked, devices, selected_device, written>>

\* ------------------------------------------------------- async_setup_entry

\* variant: the first stored entry is not taken over
LoadHistory_SkipsOldest(loaded) ==
    IF loaded.kind = "list" /\ loaded.items # <<>> THEN Tail(loaded.items) ELSE <<>>

\* lines 103-105: a list is taken verbatim, anything else leaves []
LoadHistory(loaded) == IF loaded.kind = "list" THEN loaded.items ELSE <<>>

\* the state when async_setup_entry has read the options and the history of
\* installation i and no keg has been seen yet
Start(i) ==
    /\ empty_weight = i[1].empty_weight
    /\ default_full = i[1].default_full_weight
    /\ pour_threshold = i[1].pour_threshold
    /\ per_keg_full = i[1].per_keg_full
    /\ stored = i[2]
    /\ history = LoadHistory(stored)
    /\ kegs = EmptyMap
    /\ data = EmptyMap
    /\ store_data = None
    /\ events = <<>>
    /\ pc = [p \in Invocations |-> "idle"]
    /\ cur = [p \in Invocations |-> None]
    /\ batch = [p \in Invocations |-> <<>>]
    /\ now = 0
    /\ ws = "open"
    /\ day = 0
    /\ ended = <<>>
    /\ log = history
    /\ unloaded_at = None
    /\ fetched = None
    /\ keg_config = EmptyMap
    /\ display_units = EmptyMap
    /\ prefs = None
    /\ flow = None
    /\ setup = None
    /\ platform = None
    /\ asked = None
    /\ devices = <<>>
    /\ selected_device = None
    /\ written = EmptyMap

Init ==
    /\ \E i \in Installs : Start(i)
    /\ config_entry = None
    /\ raw = EmptyMap
    /\ normed = None
    /\ peer_history = <<>>

\* ------------------------------------------------------------ _publish_keg

\* line 146
InitialFullWeight(n) ==
    IF n.full_weight # None THEN Val(n.full_weight)
    ELSE IF n.keg_id \in DOMAIN per_keg_full THEN per_keg_full[n.keg_id]
    ELSE default_full

\* lines 144-153
GetOrCreate(n) ==
    IF n.keg_id \in DOMAIN kegs THEN kegs[n.keg_id]
    ELSE [last_weight |-> n.weight, daily_consumed |-> 0, last_pour |-> 0,
          last_pour_time |-> None, full_weight |-> InitialFullWeight(n)]

\* lines 155-156
UpdateFullWeight(info, n) ==
    IF n.full_weight # None /\ Val(n.full_weight) > 0
       /\ Val(n.full_weight) # info.full_weight
    THEN [info EXCEPT !.full_weight = Val(n.full_weight)]
    ELSE info

\* variant: the baseline moves only when a pour is detected
NewLastWeight_PourOnly(prev_weight, weight) ==
    IF prev_weight - weight > pour_threshold THEN weight ELSE prev_weight

\* line 159
NewLastWeight(prev_weight, weight) == weight

\* variant: a drop of exactly the threshold counts as a pour
IsPour_AtThreshold(prev_weight, weight) == prev_weight - weight >= pour_threshold

\* line 161
IsPour(prev_weight, weight) == prev_weight - weight > pour_threshold

\* variant: the kg amount truncated, not rounded, to two decimals
PourAmt_Truncated(prev_weight, weight) == (prev_weight - weight) \div 10

\* line 162, centi-kg
PourAmt(prev_weight, weight) == Round(prev_weight - weight, 10)

\* line 163, tenths of an ounce
PourAmtOz(pour_amt) == Round(pour_amt * KG_TO_OZ, 10000)

\* variant: weight_before read from info["last_weight"] after line 159
\* overwrote it
HistoryEntry_NewBaseline(n, prev_weight, pour_amt_oz) ==
    [timestamp |-> now + 1, keg |-> n.keg_id, pour_oz |-> pour_amt_oz,
     weight_before |-> Round(n.weight, 10), weight_after |-> Round(n.weight, 10),
     temperature |-> n.temperature]

\* lines 168-175
HistoryEntry(n, prev_weight, pour_amt_oz) ==
    [timestamp |-> now + 1, keg |-> n.keg_id, pour_oz |-> pour_amt_oz,
     weight_before |-> Round(prev_weight, 10), weight_after |-> Round(n.weight, 10),
     temperature |-> n.temperature]

\* variant: pop() for pop(0), the newest entry is dropped
PopOldest_Newest(h) ==
    IF Len(h) > MAX_LOG_ENTRIES THEN SubSeq(h, 1, Len(h) - 1) ELSE h

\* lines 176-177: one pop(0) when the append took the list over the maximum
PopOldest(h) == IF Len(h) > MAX_LOG_ENTRIES THEN Tail(h) ELSE h

\* variant: the whole list is passed to the store
LastEntries_Unsliced(h) == h

\* line 178: history[-MAX_LOG_ENTRIES:]
LastEntries(h) ==
    IF Len(h) > MAX_LOG_ENTRIES
    THEN SubSeq(h, Len(h) - MAX_LOG_ENTRIES + 1, Len(h))
    ELSE h

\* variant: the quotient is not clamped to [0, 100]
FillPct_Unclamped(weight, fw, ew) ==
    IF fw > ew THEN Round((weight - ew) * 1000, fw - ew) ELSE 0

\* lines 181-182, then round(fill_pct, 1): tenths of a percent
FillPct(weight, fw, ew) ==
    IF fw > ew
    THEN IF weight - ew <= 0 THEN 0
         ELSE IF weight - ew >= fw - ew THEN 1000
         ELSE Round((weight - ew) * 1000, fw - ew)
    ELSE 0

\* lines 184-193
DisplayRecord(n, info) ==
    [id |-> n.keg_id, name |-> n.name,
     weight |-> Round(n.weight, 10),
     temperature |-> IF n.temperature # None
                     THEN Some(Round(Val(n.temperature), 10)) ELSE None,
     full_weight |-> Round(info.full_weight, 10),
     daily_consumed |-> Round(info.daily_consumed, 1),
     last_pour |-> Round(info.last_pour, 1),
     fill_percent |-> FillPct(n.weight, info.full_weight, empty_weight)]

Put(f, k, v) == [x \in DOMAIN f \cup {k} |-> IF x = k THEN v ELSE f[x]]

\* lines 144-166: the registry entry after the reading
Applied(n) ==
    LET info == UpdateFullWeight(GetOrCreate(n), n)
        prev_weight == info.last_weight
        oz == PourAmtOz(PourAmt(prev_weight, n.weight))
        seen == [info EXCEPT !.last_weight = NewLastWeight(prev_weight, n.weight)]
    IN  IF IsPour(prev_weight, n.weight)
        THEN [seen EXCEPT !.last_pour = oz, !.last_pour_time = Some(now + 1),
                          !.daily_consumed = @ + oz]
        ELSE seen

\* lines 181-194: display record and update event
Finish(n) ==
    /\ data' = Put(data, n.keg_id, DisplayRecord(n, kegs'[n.keg_id]))
    /\ events' = Append(events, n.keg_id)

\* a JSON object; keg.get of line 45 raises AttributeError on anything else
IsDict(rec) == "keg_id" \in DOMAIN rec

\* a source hands the next record of its batch to _publish_keg, which runs to
\* its end, or to the await of store.async_save when the reading is a pour
Publish(p) ==
    /\ pc[p] = "idle"
    /\ batch[p] # <<>>
    /\ IsDict(Head(batch[p]))
    /\ LET n == Head(batch[p])
           info == UpdateFullWeight(GetOrCreate(n), n)
           prev_weight == info.last_weight
           entry == HistoryEntry(n, prev_weight, PourAmtOz(PourAmt(prev_weight, n.weight)))
       IN  /\ batch' = [batch EXCEPT ![p] = Tail(@)]
           /\ now' = now + 1
           /\ kegs' = Put(kegs, n.keg_id, Applied(n))
           /\ IF IsPour(prev_weight, n.weight)
              THEN /\ history' = PopOldest(Append(history, entry))
                   /\ log' = Append(log, entry)
                   /\ store_data' = Some(LastEntries(history'))
                   /\ pc' = [pc EXCEPT ![p] = "saving"]
                   /\ cur' = [cur EXCEPT ![p] = Some(n)]
                   /\ UNCHANGED <<data, events>>
              ELSE /\ Finish(n)
                   /\ UNCHANGED <<history, log, store_data, pc, cur>>
    /\ UNCHANGED <<cfg, io, ext, life, stored, ws>>

\* store.async_save returns: the store has written the latest data handed to
\* it, and _publish_keg runs on from line 179 to its end
SaveDone(p) ==
    /\ pc[p] = "saving"
    /\ stored' = IF store_data # None THEN Payload("list", Val(store_data)) ELSE stored
    /\ store_data' = None
    /\ kegs' = kegs
    /\ Finish(Val(cur[p]))
    /\ pc' = [pc EXCEPT ![p] = "idle"]
    /\ cur' = [cur EXCEPT ![p] = None]
    /\ UNCHANGED <<cfg, io, ext, life, history, log, batch, now, ws>>

\* ---------------------------------------------------------------- sources

InFlight == Len(batch["poll"]) + Len(batch["poll2"]) + Len(batch["stream"])

\* rest_poll: fetch_kegs answered with the records b
RestPoll(b) ==
    /\ pc["poll"] = "idle"
    /\ batch["poll"] = <<>>
    /\ now + InFlight + Len(b) <= MaxReadings
    /\ batch' = [batch EXCEPT !["poll"] = b]
    /\ UNCHANGED <<cfg, io, ext, life, kegs, data, history, stored, store_data, events, pc, cur, now, ws, log>>

\* connect_websocket: a text frame {"kegs": b} arrived
WsFrame(b) ==
    /\ ws = "open"
    /\ pc["stream"] = "idle"
    /\ batch["stream"] = <<>>
    /\ now + InFlight + Len(b) <= MaxReadings
    /\ batch' = [batch EXCEPT !["stream"] = b]
    /\ UNCHANGED <<cfg, io, ext, life, kegs, data, history, stored, store_data, events, pc, cur, now, ws, log>>

Next ==
    \/ \E b \in Batches : RestPoll(b)
    \/ \E b \in Batches : WsFrame(b)
    \/ \E p \in Procs : Publish(p)
    \/ \E p \in Procs : SaveDone(p)

Spec == Init /\ [][Next]_vars

\* ------------------------------------------------- overlapping poll cycles

\* async_track_time_interval (line 243) starts rest_poll every 10 seconds
\* without waiting for the previous invocation: the timer fired and fetch_kegs
\* answered with the records b while the previous invocation is suspended at
\* the await of store.async_save
RestPollOverlap(b) ==
    /\ pc["poll"] = "saving"
    /\ pc["poll2"] = "idle"
    /\ batch["poll2"] = <<>>
    /\ now + InFlight + Len(b) <= MaxReadings
    /\ batch' = [batch EXCEPT !["poll2"] = b]
    /\ UNCHANGED <<cfg, io, ext, life, kegs, data, history, stored, store_data, events, pc, cur, now, ws, log>>

NextCycles ==
    \/ Next
    \/ \E b \in Batches : RestPollOverlap(b)
    \/ Publish("poll2")
    \/ SaveDone("poll2")

SpecCycles == Init /\ [][NextCycles]_vars

\* ------------------------------------------------------------- exceptions

\* an element of a kegs array that is not a JSON object (a string, a number,
\* null, a nested array)
NonDict == [json |-> "scalar"]

\* batches holding at least one element that is not an object
BadBatches ==
    { b \in UNION {[1..n -> Readings \cup {NonDict}] : n \in 1..MaxBatch} :
        \E i \in 1..Len(b) : b[i] = NonDict }

\* an exception leaves the for loop of source p: rest_poll logs it and
\* returns (lines 240-241), connect_websocket logs it, leaves the connection
\* and sleeps 10 seconds (lines 228-230); the rest of the batch is not read
Raise(p) ==
    /\ batch' = [batch EXCEPT ![p] = <<>>]
    /\ pc' = [pc EXCEPT ![p] = "idle"]
    /\ cur' = [cur EXCEPT ![p] = None]
    /\ ws' = IF p = "stream" THEN "backoff" ELSE ws

\* _normalize_keg_dict raises on a record that is not an object
NormalizeRaises(p) ==
    /\ pc[p] = "idle"
    /\ batch[p] # <<>>
    /\ ~IsDict(Head(batch[p]))
    /\ Raise(p)
    /\ UNCHANGED <<cfg, io, ext, life, kegs, data, history, stored, store_data, events, now, log>>

\* the await of store.async_save (line 178) raises; nothing in _publish_keg
\* catches it, so lines 179-194 do not run
SaveRaises(p) ==
    /\ pc[p] = "saving"
    /\ store_data' = None
    /\ Raise(p)
    /\ UNCHANGED <<cfg, io, ext, life, kegs, data, history, stored, events, now, log>>

\* a text frame whose JSON is the bare array b: data.get("kegs") at line 220
\* raises AttributeError before line 221 looks at isinstance(data, list)
WsArrayFrame(b) ==
    /\ ws = "open"
    /\ pc["stream"] = "idle"
    /\ batch["stream"] = <<>>
    /\ ws' = "backoff"
    /\ UNCHANGED <<cfg, io, ext, life, kegs, data, history, stored, store_data, events, pc, cur, batch, now, log>>

\* frames that carry no kegs array: a binary frame, text that is no JSON,
\* JSON that is a number, a string or null, an object without a kegs list
OtherFrames == {"binary", "malformed", "number", "string", "null", "object"}

\* lines 213-223 on such a frame: "continue" (the loop reads the next frame)
\* or "raise". Line 220 calls data.get on whatever json.loads returned.
FrameOutcome(kind) ==
    IF kind = "binary" THEN "continue"            \* line 213: msg.type != TEXT
    ELSE IF kind = "malformed" THEN "continue"    \* line 218: JSONDecodeError
    ELSE IF kind = "object" THEN "continue"       \* line 222: not source
    ELSE "raise"                                  \* line 220: AttributeError

WsOtherFrame(kind) ==
    /\ ws = "open"
    /\ pc["stream"] = "idle"
    /\ batch["stream"] = <<>>
    /\ ws' = IF FrameOutcome(kind) = "raise" THEN "backoff" ELSE ws
    /\ UNCHANGED <<cfg, io, ext, life, kegs, data, history, stored, store_data, events, pc, cur,
                   batch, now, log>>

\* the server closed the connection: the async for of line 212 ends without
\* an exception and the while loop goes straight to the next ws_connect
WsClosed ==
    /\ ws = "open"
    /\ pc["stream"] = "idle"
    /\ batch["stream"] = <<>>
    /\ ws' = "connecting"
    /\ UNCHANGED <<cfg, io, ext, life, kegs, data, history, stored, store_data, events, pc, cur,
                   batch, now, log>>

\* asyncio.sleep(10) of line 230 is over, the loop goes to ws_connect
WsSleepDone ==
    /\ ws = "backoff"
    /\ ws' = "connecting"
    /\ UNCHANGED <<cfg, io, ext, life, kegs, data, history, stored, store_data, events, pc, cur,
                   batch, now, log>>

\* ws_connect of line 209 succeeded
WsConnect ==
    /\ ws = "connecting"
    /\ ws' = "open"
    /\ UNCHANGED <<cfg, io, ext, life, kegs, data, history, stored, store_data, events, pc, cur,
                   batch, now, log>>

\* ws_connect raised: logged at line 229, then the sleep of line 230
WsConnectFails ==
    /\ ws = "connecting"
    /\ ws' = "backoff"
    /\ UNCHANGED <<cfg, io, ext, life, kegs, data, history, stored, store_data, events, pc, cur,
                   batch, now, log>>

NextErrors ==
    \/ \E b \in Batches \cup BadBatches : RestPoll(b)
    \/ \E b \in Batches \cup BadBatches : WsFrame(b)
    \/ \E p \in Procs : Publish(p)
    \/ \E p \in Procs : SaveDone(p)
    \/ \E p \in Procs : NormalizeRaises(p)
    \/ \E p \in Procs : SaveRaises(p)
    \/ \E b \in Batches : WsArrayFrame(b)
    \/ \E kind \in OtherFrames : WsOtherFrame(kind)
    \/ WsClosed
    \/ WsSleepDone
    \/ WsConnect
    \/ WsConnectFails

SpecErrors == Init /\ [][NextErrors]_vars

\* ------------------------------------------------------------ daily reset

\* the registry's kegs in the order reset_daily visits them
KegOrder == <<"keg1", "keg2">>

\* reset_daily (lines 245-251): it has no await and runs in one piece, also
\* while a _publish_keg is suspended at the history write
ResetDaily ==
    /\ day < MaxDays
    /\ day' = day + 1
    /\ kegs' = [k \in DOMAIN kegs |-> [kegs[k] EXCEPT !.daily_consumed = 0]]
    /\ data' = [k \in DOMAIN data |->
                 IF k \in DOMAIN kegs THEN [data[k] EXCEPT !.daily_consumed = 0] ELSE data[k]]
    /\ events' = events \o SelectSeq(KegOrder, LAMBDA k : k \in DOMAIN kegs /\ k \in DOMAIN data)
    /\ UNCHANGED <<cfg, io, ext, history, stored, store_data, pc, cur, batch, now, ws, log, ended>>

NextDaily ==
    \/ Next
    \/ ResetDaily

SpecDaily == Init /\ [][NextDaily]_vars

\* --------------------------------------------------------------- restart

\* the run of the instance ends and async_setup_entry runs again. how = "stop":
\* Home Assistant stops, on_stop (lines 281-284) hands history[-MAX:] to the
\* store, which writes it before the process exits. how = "kill": the process
\* dies, what the store has not written is lost. The next run loads the
\* history (lines 103-105) and starts with an empty registry.
Restart(how) ==
    /\ Len(ended) < MaxRestarts
    /\ ended' = Append(ended, how)
    /\ stored' = IF how = "stop" THEN Payload("list", LastEntries(history)) ELSE stored
    /\ history' = LoadHistory(stored')
    /\ log' = history'
    /\ kegs' = EmptyMap
    /\ data' = EmptyMap
    /\ store_data' = None
    /\ events' = <<>>
    /\ pc' = [p \in Invocations |-> "idle"]
    /\ cur' = [p \in Invocations |-> None]
    /\ batch' = [p \in Invocations |-> <<>>]
    /\ ws' = "open"
    /\ UNCHANGED <<cfg, io, ext, now, day>>

NextRestart ==
    \/ NextCycles
    \/ \E how \in {"stop", "kill"} : Restart(how)

SpecRestart == Init /\ [][NextRestart]_vars

\* ------------------------------------------------------ _normalize_keg_dict

\* JSON values as json.loads returns them. Numbers are in thousandths; strings
\* are sequences of characters.
JNull == [t |-> "null"]
JNum(n) == [t |-> "num", n |-> n]
JStr(chars) == [t |-> "str", s |-> chars]
JBool(b) == [t |-> "bool", b |-> b]
JList == [t |-> "list"]

Digits == <<"0", "1", "2", "3", "4", "5", "6", "7", "8", "9">>
IsDigit(c) == \E d \in 1..10 : Digits[d] = c
DigitVal(c) == (CHOOSE d \in 1..10 : Digits[d] = c) - 1

\* the value of a sequence of digits
RECURSIVE DigitsVal(_)
DigitsVal(ds) ==
    IF ds = <<>> THEN 0
    ELSE 10 * DigitsVal(SubSeq(ds, 1, Len(ds) - 1)) + DigitVal(ds[Len(ds)])

\* str.strip() as float() applies it to a string
RECURSIVE Strip(_)
Strip(cs) ==
    IF cs # <<>> /\ cs[1] = " " THEN Strip(Tail(cs))
    ELSE IF cs # <<>> /\ cs[Len(cs)] = " " THEN Strip(SubSeq(cs, 1, Len(cs) - 1))
    ELSE cs

\* the digits after the decimal point as thousandths
Thousandths(frac) ==
    LET three == SubSeq(frac \o <<"0", "0", "0">>, 1, 3) IN DigitsVal(three)

\* float(string) for decimal literals: optional sign, digits, optional point
\* and digits. Some(value), or None where float raises ValueError.
ParseFloat(chars) ==
    LET st == Strip(chars)
        signed == st # <<>> /\ st[1] \in {"-", "+"}
        body == IF signed THEN Tail(st) ELSE st
        dots == {i \in 1..Len(body) : body[i] = "."}
        dot == IF dots = {} THEN Len(body) + 1 ELSE CHOOSE i \in dots : TRUE
        int == SubSeq(body, 1, dot - 1)
        frac == SubSeq(body, dot + 1, Len(body))
        wellformed == /\ Cardinality(dots) <= 1
                      /\ Len(int) + Len(frac) > 0
                      /\ \A i \in 1..Len(int) : IsDigit(int[i])
                      /\ \A i \in 1..Len(frac) : IsDigit(frac[i])
        magnitude == 1000 * DigitsVal(int) + Thousandths(frac)
    IN  IF ~wellformed THEN None
        ELSE IF signed /\ st[1] = "-" THEN Some(0 - magnitude) ELSE Some(magnitude)

\* float(val): Some(value), or None where it raises TypeError or ValueError
Float(val) ==
    IF val.t = "num" THEN Some(val.n)
    ELSE IF val.t = "bool" THEN Some(IF val.b THEN 1000 ELSE 0)
    ELSE IF val.t = "str" THEN ParseFloat(val.s)
    ELSE None

\* variant: the fallback is 1.0
coerce_float_FallbackOne(val, default) ==
    IF Float(val) # None THEN Val(Float(val)) ELSE 1000

\* lines 36-40
coerce_float(val, default) ==
    IF Float(val) # None THEN Val(Float(val)) ELSE default

\* dict.get(key, default)
Get(keg, key, default) == IF key \in DOMAIN keg THEN keg[key] ELSE default

\* the decimal digits of a natural number
RECURSIVE NatStr(_)
NatStr(n) ==
    IF n < 10 THEN <<Digits[n + 1]>> ELSE NatStr(n \div 10) \o <<Digits[(n % 10) + 1]>>

\* str(val) for a string, None, a bool or a whole number
Str(val) ==
    IF val.t = "str" THEN val.s
    ELSE IF val.t = "null" THEN <<"N", "o", "n", "e">>
    ELSE IF val.t = "bool" THEN (IF val.b THEN <<"T", "r", "u", "e">>
                                 ELSE <<"F", "a", "l", "s", "e">>)
    ELSE IF val.t = "num" THEN (IF val.n < 0 THEN <<"-">> \o NatStr((0 - val.n) \div 1000)
                                ELSE NatStr(val.n \div 1000))
    ELSE <<"[", "]">>

Upper == <<"A", "B", "E", "F", "G", "K", "N", "T">>
LowerOf == <<"a", "b", "e", "f", "g", "k", "n", "t">>

\* str.lower() over the letters in use
Lower(cs) ==
    [i \in 1..Len(cs) |->
        IF \E j \in 1..Len(Upper) : Upper[j] = cs[i]
        THEN LowerOf[CHOOSE j \in 1..Len(Upper) : Upper[j] = cs[i]]
        ELSE cs[i]]

\* str.replace(" ", "_")
Underscored(cs) == [i \in 1..Len(cs) |-> IF cs[i] = " " THEN "_" ELSE cs[i]]

\* the truth value of a JSON value, as `or` at line 50 tests it
Truthy(val) ==
    IF val.t = "str" THEN val.s # <<>>
    ELSE IF val.t = "num" THEN val.n # 0
    ELSE IF val.t = "bool" THEN val.b
    ELSE val.t = "list"

\* a raw record that is a JSON object: a function from its keys to JSON values
IsObject(keg) == DOMAIN keg \subseteq {"id", "name", "weight", "temperature", "full_weight",
                                       "weight_calibrate", "temperature_calibrate"}

\* lines 43-59. keg.get raises AttributeError on anything but an object.
normalize_keg_dict(keg) ==
    IF ~IsObject(keg) THEN [raised |-> TRUE]
    ELSE
    LET keg_id == Underscored(Lower(Str(Get(keg, "id", JStr(<<"u", "n", "k", "n", "o", "w", "n">>)))))
        weight == coerce_float(Get(keg, "weight", JNull), 0)
        temp == Get(keg, "temperature", JNull)
        full_w == coerce_float(Get(keg, "full_weight", JNull), 0)
        name == Get(keg, "name", JNull)
    IN  [raised |-> FALSE,
         keg_id |-> keg_id,
         name |-> IF Truthy(name) THEN name ELSE JStr(keg_id),
         weight |-> weight,
         temperature |-> IF temp # JNull THEN Some(coerce_float(temp, 0)) ELSE None,
         full_weight |-> IF full_w > 0 THEN Some(full_w) ELSE None,
         weight_calibrate |-> coerce_float(Get(keg, "weight_calibrate", JNull), 0),
         temperature_calibrate |-> coerce_float(Get(keg, "temperature_calibrate", JNull), 0)]

\* a key that the record does not have
Absent == [t |-> "absent"]

\* the object with the given values, without the keys whose value is Absent
RawDict(id, name, weight, temperature, full_weight) ==
    LET all == [id |-> id, name |-> name, weight |-> weight,
                temperature |-> temperature, full_weight |-> full_weight]
    IN  [k \in {x \in DOMAIN all : all[x] # Absent} |-> all[k]]

RawIds == {Absent, JNull, JNum(3000), JStr(<<"K", "e", "g", " ", "1">>),
           JStr(<<"k", "e", "g", "2">>), JStr(<<"B", "a", "r", " ", "T", "a", "p", " ", "A">>)}
RawNames == {Absent, JStr(<<>>), JStr(<<"A", "l", "e">>)}
RawWeights == {Absent, JNull, JList, JBool(TRUE), JNum(18500), JNum(0 - 500),
               JStr(<<"1", "8", ".", "5">>), JStr(<<" ", "-", "2", " ">>),
               JStr(<<"a", "b", "c">>), JStr(<<"1", ".", "2", ".", "3">>), JStr(<<>>)}
RawTemperatures == {Absent, JNull, JNum(4250), JStr(<<"4", ".", "2", "5">>), JStr(<<"c", "o", "l", "d">>)}
RawFullWeights == {Absent, JNull, JNum(0), JNum(0 - 1000), JNum(19000),
                   JStr(<<"1", "9">>), JStr(<<"0">>), JStr(<<"f", "u", "l", "l">>)}

\* the records explored: objects with keys missing and with values of the
\* right and of the wrong type
RawRecords ==
    { RawDict(i, n, w, t, f) : i \in RawIds, n \in RawNames, w \in RawWeights,
                               t \in RawTemperatures, f \in RawFullWeights }

\* a source takes the record raw from a kegs array and normalizes it
Normalize ==
    /\ normed = None
    /\ normed' = Some(normalize_keg_dict(raw))
    /\ UNCHANGED <<cfg, life, ext, raw, kegs, data, history, stored, store_data, events, pc, cur,
                   batch, now, ws, log>>

InitNorm ==
    /\ Start(<<DefaultOptions, Payload("none", <<>>)>>)
    /\ config_entry = None
    /\ raw \in RawRecords
    /\ normed = None
    /\ peer_history = <<>>

SpecNorm == InitNorm /\ [][Normalize]_vars

\* ----------------------------------------------------------------- unload

\* async_unload_entry (lines 296-303): the platforms are unloaded and the
\* instance's state is popped from hass.data. The websocket task of line 285
\* and the two interval timers of lines 243 and 253 are not cancelled (their
\* handles are not kept); their closures keep the state dict and the store.
Unload ==
    /\ unloaded_at = None
    /\ unloaded_at' = Some(now + InFlight)
    /\ UNCHANGED <<host, cfg, io, life, kegs, data, history, stored, store_data, events, pc, cur,
                   batch, now, ws, log, fetched, peer_history, keg_config, display_units, prefs>>

NextUnload ==
    \/ NextDaily
    \/ Unload

SpecUnload == Init /\ [][NextUnload]_vars

\* ------------------------------------------------------------- fetch_kegs

\* what one GET of fetch_kegs can meet: a status other than 200 ("status"),
\* an exception from the request or from resp.json() ("error"), a JSON array
\* ("list"), an object with a kegs array ("kegs"), an object without one
\* ("object"), any other JSON value ("scalar")
Response(kind, items) == [kind |-> kind, items |-> items]

FetchBodies ==
    { <<>>,
      <<Norm("keg1", 19000, None, None)>>,
      <<Norm("keg1", 19000, None, None), Norm("keg1", 18500, None, None)>> }

Responses ==
    { Response(kind, <<>>) : kind \in {"status", "error", "object", "scalar"} }
    \cup { Response(kind, b) : kind \in {"list", "kegs"}, b \in FetchBodies }

\* variant: only the first URL is tried
RECURSIVE fetch_kegs_FirstOnly(_)
fetch_kegs_FirstOnly(rs) ==
    IF rs = <<>> THEN <<>>
    ELSE IF Head(rs).kind \in {"list", "kegs"} THEN Head(rs).items
    ELSE <<>>

\* lines 112-135: rs are the answers of the URLs in the order tried
RECURSIVE fetch_kegs(_)
fetch_kegs(rs) ==
    IF rs = <<>> THEN <<>>                                         \* line 132
    ELSE IF Head(rs).kind = "status" THEN fetch_kegs(Tail(rs))     \* lines 123-124
    ELSE IF Head(rs).kind = "error" THEN fetch_kegs(Tail(rs))      \* lines 130-131
    ELSE IF Head(rs).kind = "list" THEN Head(rs).items             \* lines 126-127
    ELSE IF Head(rs).kind = "kegs" THEN Head(rs).items             \* lines 128-129
    ELSE fetch_kegs(Tail(rs))

\* rest_poll (lines 232-241) with the answers rs to its two GETs: an empty
\* result ends the invocation at line 236
RestPollHttp(rs) ==
    /\ pc["poll"] = "idle"
    /\ batch["poll"] = <<>>
    /\ now + InFlight + Len(fetch_kegs(rs)) <= MaxReadings
    /\ fetched' = Some([responses |-> rs, result |-> fetch_kegs(rs)])
    /\ batch' = [batch EXCEPT !["poll"] = fetch_kegs(rs)]
    /\ UNCHANGED <<host, cfg, io, life, kegs, data, history, stored, store_data, events, pc, cur,
                   now, ws, log, unloaded_at, peer_history, keg_config, display_units, prefs>>

NextFetch ==
    \/ \E r1 \in Responses : \E r2 \in Responses : RestPollHttp(<<r1, r2>>)
    \/ Publish("poll")
    \/ SaveDone("poll")

SpecFetch == Init /\ [][NextFetch]_vars

\* ------------------------------------------------------ a second instance

\* config_flow.py takes the ws_url as unique id, so a second entry with
\* another URL is set up by the same async_setup_entry; line 90 gives every
\* entry the store key "beer_keg_history", one file for all of them.

\* the entry a pour of the second instance's device appends (lines 168-175)
PeerEntry ==
    [timestamp |-> now + 1, keg |-> "tap2", pour_oz |-> 176,
     weight_before |-> 1900, weight_after |-> 1850, temperature |-> None]

PeerPours == Cardinality({i \in 1..Len(peer_history) : peer_history[i].keg = "tap2"})

\* _publish_keg of the second instance on a pour, the save included
PeerPour ==
    /\ PeerPours < MaxPeerPours
    /\ peer_history' = PopOldest(Append(peer_history, PeerEntry))
    /\ stored' = Payload("list", LastEntries(peer_history'))
    /\ UNCHANGED <<host, cfg, io, life, kegs, data, history, store_data, events, pc, cur, batch, now,
                   ws, log, unloaded_at, fetched, keg_config, display_units, prefs>>

\* the second instance is reloaded: lines 103-105 read the store again
PeerReload ==
    /\ peer_history # LoadHistory(stored)
    /\ peer_history' = LoadHistory(stored)
    /\ UNCHANGED <<host, cfg, io, life, kegs, data, history, stored, store_data, events, pc, cur,
                   batch, now, ws, log, unloaded_at, fetched, keg_config, display_units, prefs>>

\* both instances have been set up from the same store
InitShared ==
    /\ \E i \in Installs : Start(i)
    /\ config_entry = None
    /\ raw = EmptyMap
    /\ normed = None
    /\ peer_history = history

NextShared ==
    \/ Next
    \/ PeerPour
    \/ PeerReload

SpecShared == InitShared /\ [][NextShared]_vars

\* ------------------------------------------------- device-reported full weight

\* readings that carry a full_weight: above and below the default, equal to
\* it, and below the empty weight (the normalizer passes any positive value)
FullWeights == {None, Some(20000), Some(DEFAULT_FULL_WEIGHT), Some(3000)}

CalibReadings ==
    {Norm("keg1", 18500, None, fw) : fw \in FullWeights}
    \cup {Norm("keg1", 19000, None, None), Norm("keg2", 5000, Some(425), Some(10000))}

CalibBatches == UNION {[1..n -> CalibReadings] : n \in 1..MaxBatch}

NextCalib ==
    \/ \E b \in CalibBatches : RestPoll(b)
    \/ \E b \in CalibBatches : WsFrame(b)
    \/ \E p \in Procs : Publish(p)
    \/ \E p \in Procs : SaveDone(p)

SpecCalib == Init /\ [][NextCalib]_vars

\* ------------------------------------------------ number, text, date, select

\* The entities of a keg are created from its first update event (create_for,
\* number.py lines 62-84), so a keg with entities has a display record. The
\* state holds a preferences store (prefs_store), keg_config and
\* display_units next to kegs and data.

\* number.py lines 24-49: the keys, with a value each, in the units of the
\* display record
NumberInputs == {<<"full_weight", 1950>>, <<"weight_calibrate", 50>>}

\* text.py lines 22-41: key and maximal length
TextMax == [name |-> 64, beer_sg |-> 16]

Texts == {"Pale Ale", "1.048000000000001"}

TextChars(v) ==
    CASE v = "Pale Ale" -> <<"P", "a", "l", "e", " ", "A", "l", "e">>
      [] v = "1.048000000000001" ->
           <<"1", ".", "0", "4", "8", "0", "0", "0", "0", "0", "0", "0", "0", "0", "0", "0", "1">>
      [] v = "1.04800000000000" ->
           <<"1", ".", "0", "4", "8", "0", "0", "0", "0", "0", "0", "0", "0", "0", "0", "0">>

FromChars(cs) == CHOOSE v \in Texts \cup {"1.04800000000000"} : TextChars(v) = cs

\* text.py lines 155-156: value[:max] when the value is longer
Trim(v, max) ==
    IF max # 0 /\ Len(TextChars(v)) > max THEN FromChars(SubSeq(TextChars(v), 1, max)) ELSE v

Date(y, m, d) == [year |-> y, month |-> m, day |-> d]
Dates == {None, Some(Date(2026, 3, 7))}

RECURSIVE Pad(_, _)
Pad(cs, n) == IF Len(cs) >= n THEN cs ELSE Pad(<<"0">> \o cs, n)

\* date.isoformat(): YYYY-MM-DD
IsoFormat(d) ==
    Pad(NatStr(d.year), 4) \o <<"-">> \o Pad(NatStr(d.month), 2) \o <<"-">> \o Pad(NatStr(d.day), 2)

\* select.py lines 20-33, and an option no select offers
UnitOptions == [weight |-> {"kg", "lb"}, temp |-> {"C", "F"}, pour |-> {"oz", "ml"}]
Offered == {"lb", "F", "ml", "stone"}

\* d.setdefault(k, {})
SetDefault(d, k) == IF k \in DOMAIN d THEN d[k] ELSE EmptyMap

\* BeerKegNumberEntity.async_set_native_value (number.py lines 142-154)
NumberSet(k, key, value) ==
    /\ k \in DOMAIN data
    /\ Len(events) < MaxEvents
    /\ data' = Put(data, k, Put(SetDefault(data, k), key, value))
    /\ written' = Put(written, k, Put(SetDefault(written, k), key, value))
    /\ events' = Append(events, k)
    /\ UNCHANGED <<cfg, io, life, kegs, history, stored, store_data, pc, cur, batch, now, ws, log,
                   unloaded_at, fetched, peer_history, keg_config, display_units, prefs,
                   config_entry, flow, setup, platform, asked, devices, selected_device>>

\* BeerKegNumberEntity.native_value (number.py lines 129-140)
number_native_value(k, key) ==
    IF k \notin DOMAIN data \/ key \notin DOMAIN data[k] THEN None ELSE Some(data[k][key])

\* what prefs_store.async_save is given by the text and the date entities
PrefsOf(du, keg_cfg) == [display_units |-> du, keg_config |-> keg_cfg]

\* BeerKegTextEntity.async_set_value (text.py lines 145-181)
TextSet(k, key, value) ==
    LET v == Trim(value, TextMax[key])
    IN  /\ k \in DOMAIN data
        /\ Len(events) < MaxEvents
        /\ keg_config' = Put(keg_config, k, Put(SetDefault(keg_config, k), key, v))
        /\ data' = Put(data, k, Put(SetDefault(data, k), key, v))
        /\ prefs' = Some(PrefsOf(display_units, keg_config'))
        /\ events' = Append(events, k)
        /\ UNCHANGED <<host, cfg, io, life, kegs, history, stored, store_data, pc, cur, batch, now, ws,
                       log, unloaded_at, fetched, peer_history, display_units>>

\* BeerKegDateEntity.async_set_value (date.py lines 122-153)
DateSet(k, key, value) ==
    LET v == IF value = None THEN None ELSE Some(IsoFormat(Val(value)))
    IN  /\ k \in DOMAIN data
        /\ Len(events) < MaxEvents
        /\ keg_config' = Put(keg_config, k, Put(SetDefault(keg_config, k), key, v))
        /\ data' = Put(data, k, Put(SetDefault(data, k), key, v))
        /\ prefs' = Some(PrefsOf(display_units, keg_config'))
        /\ events' = Append(events, k)
        /\ UNCHANGED <<host, cfg, io, life, kegs, history, stored, store_data, pc, cur, batch, now, ws,
                       log, unloaded_at, fetched, peer_history, display_units>>

\* the keys of data in insertion order: a display record is inserted with
\* the first update event of its keg
RECURSIVE FirstSeen(_)
FirstSeen(es) ==
    IF es = <<>> THEN <<>>
    ELSE LET r == FirstSeen(SubSeq(es, 1, Len(es) - 1))
         IN  IF \E i \in 1..Len(r) : r[i] = es[Len(es)] THEN r ELSE Append(r, es[Len(es)])

\* a select_option call as the entity receives it
Call(entity, option) == Some([entity |-> entity, option |-> option])

\* variant: the option is taken without looking it up in the option list
UnitSelect_Unchecked(kind, option) ==
    /\ asked' = Call(kind, option)
    /\ Len(events) + Cardinality(DOMAIN data) <= MaxEvents
    /\ display_units' = Put(display_units, kind, option)
    /\ prefs' = Some([display_units |-> display_units'])
    /\ events' = events \o FirstSeen(events)
    /\ UNCHANGED <<cfg, io, life, kegs, data, history, stored, store_data, pc, cur, batch,
                   now, ws, log, unloaded_at, fetched, peer_history, keg_config,
                   config_entry, flow, setup, platform, devices, selected_device, written>>

\* BeerKegUnitSelect.async_select_option (select.py lines 180-214)
UnitSelect(kind, option) ==
    /\ asked' = Call(kind, option)
    /\ IF option \notin UnitOptions[kind]
       THEN UNCHANGED <<display_units, prefs, events>>
       ELSE /\ Len(events) + Cardinality(DOMAIN data) <= MaxEvents
            /\ display_units' = Put(display_units, kind, option)
            /\ prefs' = Some([display_units |-> display_units'])
            /\ events' = events \o FirstSeen(events)
    /\ UNCHANGED <<cfg, io, life, kegs, data, history, stored, store_data, pc, cur, batch,
                   now, ws, log, unloaded_at, fetched, peer_history, keg_config,
                   config_entry, flow, setup, platform, devices, selected_device, written>>

\* the polls that feed the entities: one record each, a full keg1, keg1 after
\* a pour, keg2
EntityBatches == {b \in Batches : Len(b) = 1 /\ b[1].weight \in {19000, 18500, 5000}}

NextEntities ==
    \/ \E b \in EntityBatches : RestPoll(b)
    \/ Publish("poll")
    \/ SaveDone("poll")
    \/ ResetDaily
    \/ \E k \in Kegs : \E i \in NumberInputs : NumberSet(k, i[1], i[2])
    \/ \E k \in Kegs : \E key \in DOMAIN TextMax : \E v \in Texts : TextSet(k, key, v)
    \/ \E k \in Kegs : \E v \in Dates : DateSet(k, "kegged_date", v)
    \/ \E o \in {"lb", "stone"} : UnitSelect("weight", o)

\* a fresh installation with the default options
InitEntities ==
    /\ Start(<<DefaultOptions, Payload("none", <<>>)>>)
    /\ config_entry = None
    /\ raw = EmptyMap
    /\ normed = None
    /\ peer_history = <<>>

SpecEntities == InitEntities /\ [][NextEntities]_vars

\* -------------------------------------------------- sensors and the selects

\* KegSensor._get_display_units (sensor.py lines 220-234)
get_display_units ==
    LET du == display_units
        weight_u == Get(du, "weight", "kg")
        temp_u == Get(du, "temp", "C")
        pour_u == Get(du, "pour", "oz")
    IN  [weight |-> IF weight_u \notin {"kg", "lb"} THEN "kg" ELSE weight_u,
         temp |-> IF temp_u \notin {"C", "F"} THEN "C" ELSE temp_u,
         pour |-> IF pour_u \notin {"oz", "ml"} THEN "oz" ELSE pour_u]

\* sensor.py lines 21-138: the key of the display record a sensor reads
SensorKey ==
    [weight |-> "weight", temperature |-> "temperature", weight_display |-> "weight",
     temperature_display |-> "temperature", fill_percent |-> "fill_percent",
     last_pour |-> "last_pour", daily_consumed |-> "daily_consumed",
     last_pour_display |-> "last_pour", daily_consumption_display |-> "daily_consumed",
     full_weight |-> "full_weight"]

BaseSensors == {"weight", "temperature", "last_pour", "daily_consumed"}

\* data.get(keg_id, {}).get(key): None also where the stored value is None
RawValue(k, key) ==
    IF k \notin DOMAIN data \/ key \notin DOMAIN data[k] THEN None
    ELSE IF key = "temperature" THEN data[k][key]
    ELSE Some(data[k][key])

\* variant: the weight sensor follows the selected weight unit
native_value_FollowsUnits(k, sensor_type) ==
    LET raw_value == RawValue(k, SensorKey[sensor_type])
        v == Val(raw_value)
        units == get_display_units
    IN  IF raw_value = None THEN None
        ELSE IF sensor_type \in {"weight", "weight_display"}
        THEN (IF units.weight = "lb" THEN Some(Round(v * 220462, 100000)) ELSE Some(Round(v, 1)))
        ELSE raw_value

\* KegSensor.native_value (sensor.py lines 238-339). Weights in hundredths
\* of a kg or lb, temperatures in tenths of a degree, pours in tenths of an
\* oz or in whole ml.
native_value(k, sensor_type) ==
    LET raw_value == RawValue(k, SensorKey[sensor_type])
        v == Val(raw_value)
        units == get_display_units
    IN  IF raw_value = None THEN None
        ELSE IF sensor_type = "weight" THEN Some(Round(v, 1))
        ELSE IF sensor_type = "temperature" THEN Some(Round(v, 1))
        ELSE IF sensor_type = "weight_display"
        THEN (IF units.weight = "lb" THEN Some(Round(v * 220462, 100000)) ELSE Some(Round(v, 1)))
        ELSE IF sensor_type = "temperature_display"
        THEN (IF units.temp = "F" THEN Some(Round(v * 9 + 1600, 5)) ELSE Some(Round(v, 1)))
        ELSE IF sensor_type \in {"last_pour_display", "daily_consumption_display"}
        THEN (IF units.pour = "ml" THEN Some(Round(v * 295735, 100000)) ELSE Some(Round(v, 1)))
        ELSE IF sensor_type \in {"last_pour", "daily_consumed"} THEN Some(Round(v, 1))
        ELSE raw_value

\* BeerKegUnitSelect.current_option (select.py lines 162-178)
unit_current_option(kind) ==
    LET default == [weight |-> "kg", temp |-> "C", pour |-> "oz"]
        val == Get(display_units, kind, default[kind])
    IN  IF val \in UnitOptions[kind] THEN val ELSE default[kind]

\* BeerKegDeviceSelect.options (select.py lines 91-95)
device_options == devices

InSeq(x, seq) == \E i \in 1..Len(seq) : seq[i] = x

\* BeerKegDeviceSelect.current_option (select.py lines 97-106)
device_current_option ==
    IF selected_device # None /\ InSeq(Val(selected_device), device_options)
    THEN selected_device
    ELSE IF device_options # <<>> THEN Some(device_options[1])
    ELSE None

\* BeerKegDeviceSelect.async_select_option (select.py lines 108-115)
DeviceSelect(option) ==
    /\ asked' = Call("device", option)
    /\ selected_device' = IF InSeq(option, device_options) THEN Some(option) ELSE selected_device
    /\ UNCHANGED <<cfg, io, life, kegs, data, history, stored, store_data, events, pc, cur, batch,
                   now, ws, log, unloaded_at, fetched, peer_history, keg_config, display_units,
                   prefs, config_entry, flow, setup, platform, devices, written>>

\* the device lists the integration may hold
DeviceLists == {<<>>, <<"keg1">>, <<"keg2", "keg1">>}

\* state["devices"] is replaced (the list of /api/kegs/devices the select
\* listens for, select.py lines 117-128)
DevicesUpdate(ds) ==
    /\ devices # ds
    /\ devices' = ds
    /\ UNCHANGED <<cfg, io, life, kegs, data, history, stored, store_data, events, pc, cur, batch,
                   now, ws, log, unloaded_at, fetched, peer_history, keg_config, display_units,
                   prefs, config_entry, flow, setup, platform, asked, selected_device, written>>

NextSelect ==
    \/ \E b \in EntityBatches : RestPoll(b)
    \/ Publish("poll")
    \/ SaveDone("poll")
    \/ \E kind \in DOMAIN UnitOptions : \E o \in Offered : UnitSelect(kind, o)
    \/ \E o \in {"keg1", "keg2", "keg9"} : DeviceSelect(o)
    \/ \E ds \in DeviceLists : DevicesUpdate(ds)

SpecSelect == InitEntities /\ [][NextSelect]_vars

\* ------------------------------------------- options flow and setup

\* the texts of the per-keg override map that are explored
MapTexts == {"", "  ", "{}", "{\"Keg 2\": 4}", "{bad", "[19]", "{\"keg1\": \"full\"}"}

\* their characters, as far as str.strip() looks at them: blanks and others
MapChars(text) ==
    CASE text = "" -> <<>>
      [] text = "  " -> <<" ", " ">>
      [] text = "{}" -> <<"{", "}">>
      [] text = "{bad" -> <<"{", "b", "a", "d">>
      [] text = "[19]" -> <<"[", "1", "9", "]">>
      [] OTHER -> <<"{", "}">>

JObject(items) == [t |-> "object", items |-> items]

\* json.loads(text): the value, or the JSONDecodeError
JsonLoads(text) ==
    CASE text = "{}" -> [ok |-> TRUE, value |-> JObject(EmptyMap)]
      [] text = "{\"Keg 2\": 4}" ->
           [ok |-> TRUE, value |-> JObject([k \in {<<"K", "e", "g", " ", "2">>} |-> JNum(4000)])]
      [] text = "[19]" -> [ok |-> TRUE, value |-> JList]
      [] text = "{\"keg1\": \"full\"}" ->
           [ok |-> TRUE,
            value |-> JObject([k \in {<<"k", "e", "g", "1">>} |-> JStr(<<"f", "u", "l", "l">>)])]
      [] OTHER -> [ok |-> FALSE]

\* lines 78-87 of async_setup_entry: the overrides, and whether the warning
\* of line 87 was logged. An exception anywhere in the comprehension leaves {}.
ParsePerKegFull(raw_mapping) ==
    IF raw_mapping = "" THEN [per_keg_full |-> EmptyMap, warned |-> FALSE]
    ELSE LET loaded == JsonLoads(raw_mapping)
             items == loaded.value.items
         IN  IF \/ ~loaded.ok
                \/ loaded.value.t # "object"
                \/ \E k \in DOMAIN items : Float(items[k]) = None
             THEN [per_keg_full |-> EmptyMap, warned |-> TRUE]
             ELSE [per_keg_full |->
                       [id \in {Underscored(Lower(k)) : k \in DOMAIN items} |->
                           Val(Float(items[CHOOSE k \in DOMAIN items : Underscored(Lower(k)) = id]))],
                   warned |-> FALSE]

ConfigEntry(ws_url, options) == [ws_url |-> ws_url, options |-> options]

\* what can go wrong in the host during setup: nothing, store.async_load
\* raises, the platform setup raises
SetupFaults == {"none", "load", "platforms"}

\* async_setup_entry (lines 66-293) on entry e: the value returned, whether
\* hass.data holds the instance state, and the activities started
async_setup_entry(e, fault) ==
    LET parsed == ParsePerKegFull(e.options.per_keg_full)
    IN  IF e.ws_url \in {"none", ""}
        THEN [entry |-> e, result |-> FALSE, registered |-> FALSE, started |-> {},
              per_keg_full |-> EmptyMap, warned |-> FALSE]
        ELSE [entry |-> e, result |-> fault = "none", registered |-> TRUE,
              started |-> IF fault = "load" THEN {}
                          ELSE {"rest_poll", "reset_daily", "connect_websocket"},
              per_keg_full |-> parsed.per_keg_full, warned |-> parsed.warned]

\* the host sets the entry up
SetupEntry(fault) ==
    /\ setup' = Some(async_setup_entry(config_entry, fault))
    /\ UNCHANGED <<cfg, io, life, kegs, data, history, stored, store_data, events, pc, cur, batch,
                   now, ws, log, unloaded_at, fetched, peer_history, keg_config, display_units,
                   prefs, config_entry, flow, platform, asked, devices, selected_device, written>>

\* what the user can submit in the options form
UserInputs ==
    {[empty_weight |-> DEFAULT_EMPTY_WEIGHT, default_full_weight |-> DEFAULT_FULL_WEIGHT,
      pour_threshold |-> t, per_keg_full |-> m] : t \in {DEFAULT_POUR_THRESHOLD, 0 - 400}, m \in MapTexts}

\* BeerKegOptionsFlowHandler.async_step_init with a user_input (lines 72-85):
\* the form comes back with the error, or the entry's options are replaced
OptionsSubmit(user_input) ==
    LET mapping == user_input.per_keg_full
        raises == Strip(MapChars(mapping)) # <<>> /\ ~JsonLoads(mapping).ok
    IN  /\ flow' = Some([type |-> IF raises THEN "form" ELSE "create_entry",
                         errors |-> IF raises THEN "invalid_json" ELSE "",
                         user_input |-> Some(user_input)])
        /\ config_entry' = IF raises THEN config_entry
                           ELSE [config_entry EXCEPT !.options = user_input]
        /\ UNCHANGED <<cfg, io, life, kegs, data, history, stored, store_data, events, pc, cur,
                       batch, now, ws, log, unloaded_at, fetched, peer_history, keg_config,
                       display_units, prefs, setup, platform, asked, devices, selected_device,
                       written>>

\* async_step_init without user_input (lines 87-90): the form is shown
OptionsOpen ==
    /\ flow' = Some([type |-> "form", errors |-> "", user_input |-> None])
    /\ UNCHANGED <<cfg, io, life, kegs, data, history, stored, store_data, events, pc, cur, batch,
                   now, ws, log, unloaded_at, fetched, peer_history, keg_config, display_units,
                   prefs, config_entry, setup, platform, asked, devices, selected_device, written>>

\* the options async_step_user creates the entry with (lines 54-59)
InitialOptions ==
    [empty_weight |-> DEFAULT_EMPTY_WEIGHT, default_full_weight |-> DEFAULT_FULL_WEIGHT,
     pour_threshold |-> DEFAULT_POUR_THRESHOLD, per_keg_full |-> "{}"]

\* an entry as the config flow or an import left it: with a URL, with an
\* empty one, with none ("none" stands for the missing key)
InitConfig ==
    /\ Start(<<DefaultOptions, Payload("none", <<>>)>>)
    /\ config_entry \in {ConfigEntry(u, InitialOptions) : u \in {"none", "", "ws://scale/ws"}}
    /\ raw = EmptyMap
    /\ normed = None
    /\ peer_history = <<>>

NextConfig ==
    \/ \E fault \in SetupFaults : SetupEntry(fault)
    \/ \E user_input \in UserInputs : OptionsSubmit(user_input)
    \/ OptionsOpen

SpecConfig == InitConfig /\ [][NextConfig]_vars

\* ------------------------------------------------------- entity platforms

\* SENSOR_TYPES of sensor.py: the entities one keg gets
SENSOR_TYPES ==
    {"weight", "temperature", "fill_percent", "last_pour", "daily_consumed", "full_weight",
     "name", "id"}

\* _create_entities_for (sensor.py lines 93-101); added is the bag of
\* <<keg_id, sensor_type>> pairs async_add_entities was handed so far,
\* created_kegs the set of their keg ids
create_for(added, keg_id) ==
    IF \E e \in BagToSet(added) : e[1] = keg_id
    THEN added
    ELSE added (+) SetToBag({<<keg_id, st_key>> : st_key \in SENSOR_TYPES})

\* _handle_update (sensor.py lines 108-113), applied to the events es in
\* order: "if not keg_id: return"
RECURSIVE handle_updates(_, _)
handle_updates(added, es) ==
    IF es = <<>> THEN added
    ELSE handle_updates(IF Head(es) = "" THEN added ELSE create_for(added, Head(es)), Tail(es))

\* the loop of lines 104-105 over list(state["data"].keys())
RECURSIVE scan(_, _)
scan(added, keys) ==
    IF keys = <<>> THEN added ELSE scan(create_for(added, Head(keys)), Tail(keys))

\* the keys of state["data"] in insertion order: a record is inserted by the
\* first event of its keg
DataKeys == SelectSeq(FirstSeen(events), LAMBDA k : k \in DOMAIN data)

\* async_setup_entry of the sensor platform (sensor.py lines 87-115) runs: it
\* has no await, so the scan and the registration of the listener are one
\* step; from then on the listener sees every event fired
PlatformSetup ==
    /\ platform = None
    /\ platform' = Some([at |-> Len(events), known |-> DOMAIN data,
                         added |-> scan(EmptyBag, DataKeys)])
    /\ UNCHANGED <<cfg, io, life, kegs, data, history, stored, store_data, events, pc, cur, batch,
                   now, ws, log, unloaded_at, fetched, peer_history, keg_config, display_units,
                   prefs, config_entry, flow, setup, asked, devices, selected_device, written>>

\* the events fired since the listener was registered
Heard == SubSeq(events, Val(platform).at + 1, Len(events))

\* the entities of the platform now
Entities == handle_updates(Val(platform).added, Heard)

created_kegs == {e[1] : e \in BagToSet(Entities)}

\* device records: a full keg1, keg1 after a pour, keg2, a record whose id is
\* the empty string (line 45 keeps it: str("") is "")
PlatformReadings ==
    {Norm("keg1", 19000, None, None), Norm("keg1", 18500, None, None),
     Norm("keg2", 5000, Some(425), None), Norm("", 5000, None, None)}
PlatformBatches == {<<n>> : n \in PlatformReadings}

\* line 285 starts connect_websocket before line 286 forwards the entry to
\* the platforms: readings of both sources are processed before and after
\* the platform's async_setup_entry
NextPlatform ==
    \/ \E b \in PlatformBatches : RestPoll(b)
    \/ \E b \in PlatformBatches : WsFrame(b)
    \/ \E p \in Procs : Publish(p)
    \/ \E p \in Procs : SaveDone(p)
    \/ PlatformSetup

SpecPlatform == InitEntities /\ [][NextPlatform]_vars

\* ----------------------------------------------------------------- claims

\* the step in which source p hands the head of its batch to _publish_keg
Handles(p) ==
    /\ pc[p] = "idle"
    /\ batch[p] # <<>>
    /\ batch'[p] = Tail(batch[p])
    /\ now' = now + 1

Known(k) == k \in DOMAIN kegs

\* the weight a reading is compared with: the keg's last_weight, or the
\* reading's own weight when the keg is new
Baseline(r) == IF Known(r.keg_id) THEN kegs[r.keg_id].last_weight ELSE r.weight

\* daily_consumed of the keg before the reading
DailyBefore(r) == IF Known(r.keg_id) THEN kegs[r.keg_id].daily_consumed ELSE 0

NewEntries == {i \in 1..Len(history) : history[i].timestamp > 0}

\* C1: a reading with last_weight - weight > threshold appends exactly one
\* history entry, carrying the keg id and the 2-decimal weights before and
\* after; a reading with a smaller delta, and every step that handles no
\* reading, appends none.
C1_PourAppendsOneEntry ==
    [][ /\ \A p \in Procs : Handles(p) =>
             LET r == Head(batch[p])
                 e == history'[Len(history')]
             IN  IF Baseline(r) - r.weight > pour_threshold
                 THEN /\ history' # <<>>
                      /\ \/ history' = Append(history, e)
                         \/ history' = Tail(Append(history, e))
                      /\ e.keg = r.keg_id
                      /\ e.weight_before = Round(Baseline(r), 10)
                      /\ e.weight_after = Round(r.weight, 10)
                 ELSE history' = history
        /\ (\A p \in Procs : ~Handles(p)) => history' = history ]_vars

\* a 0.5 kg pour from 19.0 kg is on record
C1_Witness ==
    \E i \in NewEntries :
        /\ history[i].keg = "keg1"
        /\ history[i].weight_before = 1900
        /\ history[i].weight_after = 1850
        /\ history[i].pour_oz = 176

\* C2: a reading with last_weight - weight <= threshold records no pour:
\* last_pour, last_pour_time and daily_consumed of the keg, the history, the
\* stored history and the data waiting to be stored are unchanged.
C2_NoPourLeavesTotals ==
    [][ \A p \in Procs : Handles(p) =>
            LET r == Head(batch[p])
                k == r.keg_id
            IN  Baseline(r) - r.weight <= pour_threshold =>
                   /\ history' = history
                   /\ stored' = stored
                   /\ store_data' = store_data
                   /\ kegs'[k].last_pour = (IF Known(k) THEN kegs[k].last_pour ELSE 0)
                   /\ kegs'[k].last_pour_time =
                         (IF Known(k) THEN kegs[k].last_pour_time ELSE None)
                   /\ kegs'[k].daily_consumed = DailyBefore(r) ]_vars

\* keg1 poured 17.6 oz and then went from 18.5 kg back up to 18.85 kg with
\* its totals kept
C2_Witness ==
    /\ pour_threshold = DEFAULT_POUR_THRESHOLD
    /\ Known("keg1")
    /\ kegs["keg1"].last_weight = 18850
    /\ kegs["keg1"].last_pour = 176
    /\ kegs["keg1"].daily_consumed = 176
    /\ Cardinality(NewEntries) = 1
    /\ now = 3

\* C3 as stated: a pour adds round(delta * 35.274, 1) ounces to
\* daily_consumed and sets last_pour to that amount.
C3_Original ==
    [][ \A p \in Procs : Handles(p) =>
            LET r == Head(batch[p])
                k == r.keg_id
                delta == Baseline(r) - r.weight
                oz == Round(delta * KG_TO_OZ, 100000)
            IN  delta > pour_threshold =>
                   /\ kegs'[k].daily_consumed = DailyBefore(r) + oz
                   /\ kegs'[k].last_pour = oz ]_vars

\* C3 amended: a pour adds round(round(delta, 2) * 35.274, 1) ounces to
\* daily_consumed and sets last_pour to that amount (19.0 kg -> 18.5 kg
\* gives 17.6 oz).
C3_PourOunces ==
    [][ \A p \in Procs : Handles(p) =>
            LET r == Head(batch[p])
                k == r.keg_id
                delta == Baseline(r) - r.weight
                oz == Round(Round(delta, 10) * KG_TO_OZ, 10000)
            IN  delta > pour_threshold =>
                   /\ kegs'[k].daily_consumed = DailyBefore(r) + oz
                   /\ kegs'[k].last_pour = oz ]_vars

\* 19.0 -> 18.846 -> 18.5: pours of 0.15 kg (5.3 oz) and 0.35 kg (12.3 oz)
C3_Witness ==
    /\ Known("keg1")
    /\ kegs["keg1"].last_weight = 18500
    /\ kegs["keg1"].last_pour = 123
    /\ kegs["keg1"].daily_consumed = 176

\* C4: the step that handles a reading leaves the keg's last_weight equal
\* to the reading's weight, pour or not.
C4_LastWeightFollows ==
    [][ \A p \in Procs : Handles(p) =>
            kegs'[Head(batch[p]).keg_id].last_weight = Head(batch[p]).weight ]_vars

\* after a recorded pour down to 18.5 kg the baseline went up to 18.85 kg
\* without a pour
C4_Witness ==
    /\ pour_threshold = DEFAULT_POUR_THRESHOLD
    /\ Known("keg1")
    /\ kegs["keg1"].last_weight = 18850
    /\ NewEntries # {}
    /\ \A i \in NewEntries : history[i].keg = "keg1" /\ history[i].weight_after = 1850

\* C5: a reading of a known keg whose weight is >= last_weight is never a
\* pour: no history entry, last_pour and daily_consumed unchanged, and
\* last_weight becomes the new weight.
C5_IncreaseNeverPours ==
    [][ \A p \in Procs : Handles(p) =>
            LET r == Head(batch[p])
                k == r.keg_id
            IN  (Known(k) /\ r.weight >= kegs[k].last_weight) =>
                   /\ history' = history
                   /\ kegs'[k].last_pour = kegs[k].last_pour
                   /\ kegs'[k].daily_consumed = kegs[k].daily_consumed
                   /\ kegs'[k].last_weight = r.weight ]_vars

\* C6: the in-memory history never holds more than MAX_LOG_ENTRIES entries.
C6_HistoryBounded == Len(history) <= MAX_LOG_ENTRIES

IsSuffix(h, l) ==
    /\ Len(h) <= Len(l)
    /\ h = SubSeq(l, Len(l) - Len(h) + 1, Len(l))

\* C7: eviction is FIFO: the history is the most recent entries of the
\* loaded history followed by all pours in processing order, and an entry
\* is missing from it only when the log is at capacity.
C7_FifoEviction ==
    /\ IsSuffix(history, log)
    /\ Len(history) < Len(log) => Len(history) >= MAX_LOG_ENTRIES

\* an append took the loaded history over capacity and the oldest entry went
C7_Witness ==
    /\ Len(log) > Len(history)
    /\ Len(history) = MAX_LOG_ENTRIES
    /\ history[Len(history)].timestamp > 0
    /\ history[1] = OldEntry(2)

\* C8: every display record's fill_percent lies in [0, 100], and a record
\* rebuilt for a keg whose full_weight <= empty_weight has fill_percent 0.
C8_FillPercentRange ==
    [][ \A k \in DOMAIN data' :
            /\ data'[k].fill_percent >= 0
            /\ data'[k].fill_percent <= 1000
            /\ (events' = Append(events, k) /\ kegs'[k].full_weight <= empty_weight)
                  => data'[k].fill_percent = 0 ]_vars

\* keg2 configured with full weight = empty weight shows 0 %; keg1 shows 0 %
\* at a negative weight
C8_Witness ==
    /\ Known("keg2") /\ "keg2" \in DOMAIN data
    /\ kegs["keg2"].full_weight <= empty_weight
    /\ data["keg2"].fill_percent = 0
    /\ "keg1" \in DOMAIN data
    /\ data["keg1"].weight < 0
    /\ data["keg1"].fill_percent = 0

\* C9: no reading starts being applied while a reading of the other source
\* is partway through _publish_keg.
C9_NoInterleaving ==
    [][ \A p \in Procs : Handles(p) =>
            \A q \in Procs \ {p} : pc[q] # "saving" ]_vars

\* C10: when the other source has already applied the same weight to the
\* keg (its _publish_keg finished, or suspended at the history write), the
\* reading records no second pour: the history and daily_consumed are
\* unchanged.
C10_NoDuplicatePour ==
    [][ \A p \in Procs : Handles(p) =>
            LET r == Head(batch[p])
                k == r.keg_id
            IN  (Known(k) /\ kegs[k].last_weight = r.weight) =>
                   /\ history' = history
                   /\ kegs'[k].daily_consumed = kegs[k].daily_consumed ]_vars

\* C11: a reading of a later poll cycle never begins processing before every
\* reading of the earlier poll cycle has finished processing (and likewise
\* for stream frames).
C11_ArrivalOrder ==
    [][ /\ Handles("poll2") => pc["poll"] = "idle" /\ batch["poll"] = <<>>
        /\ (batch["stream"] = <<>> /\ batch'["stream"] # <<>>) => pc["stream"] = "idle" ]_vars

\* the step in which the processing of reading n by source p ends: a reading
\* that is no pour ends in the step that takes it up, a pour ends when
\* _publish_keg leaves the await of the history write
Ends(p, n) ==
    \/ Handles(p) /\ IsDict(Head(batch[p])) /\ n = Head(batch[p]) /\ pc'[p] = "idle"
    \/ pc[p] = "saving" /\ pc'[p] = "idle" /\ n = Val(cur[p])

\* the display record of reading n has been rebuilt and one update event with
\* its keg id has been fired
Notified(n) ==
    /\ n.keg_id \in DOMAIN data'
    /\ data'[n.keg_id] = DisplayRecord(n, kegs'[n.keg_id])
    /\ events' = Append(events, n.keg_id)

\* C12: each processed reading fires exactly one update notification carrying
\* its keg id, pour or not, and only together with the display record rebuilt
\* from that reading; no other step fires a notification.
C12_OneNotificationPerReading ==
    [][ /\ \A p \in Invocations : \A n \in Readings : Ends(p, n) => Notified(n)
        /\ events' # events => \E p \in Invocations : \E n \in Readings : Ends(p, n) ]_vars

\* C18: a record of a batch that is not an object is discarded alone: the
\* records after it in the same batch are still to be processed and the
\* source keeps running.
C18_MalformedRecordAlone ==
    [][ \A p \in Procs :
          (pc[p] = "idle" /\ batch[p] # <<>> /\ ~IsDict(Head(batch[p])) /\ batch'[p] # batch[p])
          => batch'[p] = Tail(batch[p]) /\ ws' = ws ]_vars

\* C19: when the history write of a pour fails, the registry update stands,
\* the display record is rebuilt, the notification is fired, the rest of the
\* batch stays to be processed and the stream connection stays open.
C19_SaveFailureContained ==
    [][ \A p \in Procs : \A n \in Readings :
          (pc[p] = "saving" /\ pc'[p] = "idle" /\ n = Val(cur[p]))
          => /\ kegs' = kegs
             /\ Notified(n)
             /\ batch'[p] = batch[p]
             /\ ws' = ws ]_vars

\* C20: a text frame that is a bare array of keg records is taken up exactly
\* as an object frame with that array under "kegs".
C20_ArrayFrameRecognized ==
    [][ \A b \in Batches : WsArrayFrame(b) => WsFrame(b) ]_vars

\* how often keg k occurs in a sequence of update events
Count(seq, k) == Cardinality({i \in 1..Len(seq) : seq[i] = k})

\* C13: after a daily reset every keg of the registry has daily_consumed 0 in
\* the registry and in its display record, and exactly one update
\* notification was fired for it, also when a reading of that keg is partway
\* through processing.
C13_DailyResetZeroesAll ==
    [][ day' = day + 1 =>
          \A k \in DOMAIN kegs :
              /\ kegs'[k].daily_consumed = 0
              /\ k \in DOMAIN data' /\ data'[k].daily_consumed = 0
              /\ Count(events', k) = Count(events, k) + 1 ]_vars

\* C14: between two daily resets the daily_consumed of a keg never decreases.
C14_DailyMonotonic ==
    [][ day' = day =>
          \A k \in DOMAIN kegs : kegs'[k].daily_consumed >= kegs[k].daily_consumed ]_vars

\* the step in which a run ends and the next one has started
Restarted == Len(ended') = Len(ended) + 1

\* items are the most recent entries of h, as many as the maximum allows
MostRecent(items, h) ==
    /\ IsSuffix(items, h)
    /\ Len(items) = IF Len(h) < MAX_LOG_ENTRIES THEN Len(h) ELSE MAX_LOG_ENTRIES

\* C15: the history a run starts with is exactly the stored list, entry by
\* entry in the same order, and empty when the stored payload is not a list;
\* after a stop it is the history the stopped run held (its most recent
\* MAX_LOG_ENTRIES entries).
C15_HistoryRoundTrip ==
    /\ history = IF stored.kind = "list" THEN stored.items ELSE <<>>
    /\ [][ Restarted =>
            /\ history' = IF stored'.kind = "list" THEN stored'.items ELSE <<>>
            /\ ended'[Len(ended')] = "stop" =>
                  stored'.kind = "list" /\ MostRecent(history', history) ]_vars

\* a run that was stopped after a pour, and the next run holding that pour
C15_Witness ==
    /\ ended # <<>> /\ ended[Len(ended)] = "stop"
    /\ kegs = EmptyMap
    /\ history # <<>> /\ history[Len(history)].timestamp > 0

Quiet == \A p \in Invocations : pc[p] = "idle"

\* C16: when the last pour in progress completes, the stored history is the
\* in-memory history (its most recent MAX_LOG_ENTRIES entries), and both stay
\* as they are while no pour is in progress; a stop stores the history of
\* the stopped run; what the instance stores never exceeds MAX_LOG_ENTRIES.
C16_FlushedOnPourAndStop ==
    [][ /\ (~Quiet /\ Quiet' /\ ~Restarted) =>
              stored'.kind = "list" /\ MostRecent(stored'.items, history')
        /\ (Quiet /\ Quiet' /\ ~Restarted) => stored' = stored /\ history' = history
        /\ (Restarted /\ ended'[Len(ended')] = "stop") =>
              stored'.kind = "list" /\ MostRecent(stored'.items, history)
        /\ stored' # stored =>
              stored'.kind = "list" /\ Len(stored'.items) <= MAX_LOG_ENTRIES ]_vars

\* two pours in a row have completed, no reading is in progress, and the
\* store holds the history with both
C16_Witness ==
    /\ Quiet /\ ended = <<>>
    /\ Len(history) >= 2 /\ stored = Payload("list", history)
    /\ history[Len(history)].timestamp = history[Len(history) - 1].timestamp + 1
    /\ history[Len(history) - 1].timestamp > 0
    /\ Len(events) >= 2 /\ events[Len(events)] = events[Len(events) - 1]

\* the value under key decides nothing: the key is absent, or float() raises
\* on its value
Unparsable(key) == key \notin DOMAIN raw \/ Float(raw[key]) = None

\* C17: normalizing an object never raises; the empty object gives keg_id
\* "unknown", weight 0.0 and no temperature and no full_weight; the id comes
\* out without upper-case letters and with "_" for every space; a weight or
\* temperature that float() rejects becomes 0.0; a full_weight that is
\* missing, rejected, zero or negative becomes absent.
C17_NormalizerTotal ==
    normed # None =>
        LET n == Val(normed) IN
        /\ ~n.raised
        /\ raw = EmptyMap =>
              /\ n.keg_id = <<"u", "n", "k", "n", "o", "w", "n">>
              /\ n.weight = 0 /\ n.temperature = None /\ n.full_weight = None
        /\ \A i \in 1..Len(n.keg_id) :
              /\ n.keg_id[i] # " "
              /\ ~\E j \in 1..Len(Upper) : Upper[j] = n.keg_id[i]
        /\ ("id" \in DOMAIN raw /\ raw["id"].t = "str") =>
              /\ Len(n.keg_id) = Len(raw["id"].s)
              /\ \A i \in 1..Len(n.keg_id) :
                    (raw["id"].s[i] = " ") <=> (n.keg_id[i] = "_")
        /\ Unparsable("weight") => n.weight = 0
        /\ ("temperature" \in DOMAIN raw /\ raw["temperature"] # JNull
              /\ Float(raw["temperature"]) = None) => n.temperature = Some(0)
        /\ n.full_weight # None => Val(n.full_weight) > 0
        /\ (Unparsable("full_weight") \/ Val(Float(raw["full_weight"])) <= 0) => n.full_weight = None
        /\ (~Unparsable("full_weight") /\ Val(Float(raw["full_weight"])) > 0)
              => n.full_weight = Float(raw["full_weight"])

\* an object with an id of upper-case letters and spaces, a weight that is no
\* number and a negative full_weight has been normalized
C17_Witness ==
    /\ normed # None
    /\ "id" \in DOMAIN raw /\ raw["id"] = JStr(<<"B", "a", "r", " ", "T", "a", "p", " ", "A">>)
    /\ Val(normed).keg_id = <<"b", "a", "r", "_", "t", "a", "p", "_", "a">>
    /\ "weight" \in DOMAIN raw /\ raw["weight"] = JStr(<<"a", "b", "c">>)
    /\ "full_weight" \in DOMAIN raw /\ raw["full_weight"] = JNum(0 - 1000)
    /\ "temperature" \notin DOMAIN raw

\* C21: a frame that is not text, not JSON, or JSON without a kegs array is
\* ignored: nothing changes and the connection keeps being read.
C21_OtherFramesIgnored ==
    [][ \A kind \in OtherFrames : WsOtherFrame(kind) => UNCHANGED vars ]_vars

\* C22: every connection attempt after the first follows the 10-second
\* sleep.
C22_ReconnectAfterDelay ==
    [][ (ws # "connecting" /\ ws' = "connecting") => ws = "backoff" ]_vars

\* C23: once the instance is unloaded and every reading received before
\* the unload has been processed, nothing changes the registry, the display
\* records, the history or the history store any more, and no update
\* notification is fired.
C23_NothingAfterUnload ==
    [][ (unloaded_at # None /\ now >= Val(unloaded_at) /\ Quiet) =>
          UNCHANGED <<kegs, data, history, stored, store_data, events>> ]_vars

\* an answer fetch_kegs returns records from
Usable(r) == r.kind = "list" \/ r.kind = "kegs"

\* C24: fetch_kegs returns the records of the first URL that answers 200
\* with an array or an object with a kegs array, going on to the next URL
\* after any other answer, and the empty list when no URL does; a poll that
\* gets the empty list changes nothing and fires no notification.
C24_FetchNeverRaises ==
    [][ fetched' # fetched =>
          LET rs == Val(fetched').responses
              result == Val(fetched').result
          IN  /\ result = IF Usable(rs[1]) THEN rs[1].items
                          ELSE IF Usable(rs[2]) THEN rs[2].items
                          ELSE <<>>
              /\ batch'["poll"] = result
              /\ UNCHANGED <<kegs, data, history, stored, store_data, events, pc, now>> ]_vars

\* the first URL answered with a status other than 200, the second with an
\* object holding a kegs array, and the records of the second are in
\* the registry
C24_Witness ==
    /\ fetched # None
    /\ Val(fetched).responses[1].kind = "status"
    /\ Val(fetched).responses[2].kind = "kegs"
    /\ Val(fetched).result # <<>>
    /\ batch["poll"] = <<>> /\ "keg1" \in DOMAIN kegs

\* C25: the first reading of a keg creates its runtime state with the
\* device-reported full_weight, else the per-keg override, else the default,
\* with daily_consumed 0, last_pour 0, no last_pour_time and the reading's
\* weight as last_weight, and records no pour.
C25_FirstReadingCreates ==
    [][ \A p \in Procs : (Handles(p) /\ ~Known(Head(batch[p]).keg_id)) =>
          LET r == Head(batch[p])
              k == r.keg_id
          IN  /\ kegs'[k].full_weight =
                    IF r.full_weight # None /\ Val(r.full_weight) > 0 THEN Val(r.full_weight)
                    ELSE IF k \in DOMAIN per_keg_full THEN per_keg_full[k]
                    ELSE default_full
              /\ kegs'[k].daily_consumed = 0
              /\ kegs'[k].last_pour = 0
              /\ kegs'[k].last_pour_time = None
              /\ kegs'[k].last_weight = r.weight
              /\ history' = history ]_vars

\* C26: on a later sighting a reading with a positive full_weight makes it
\* the stored one and the display record of that reading shows the fill
\* percent for it; a reading without full_weight leaves the stored
\* full_weight as it is.
C26_FullWeightFollowsDevice ==
    [][ /\ \A p \in Procs : (Handles(p) /\ Known(Head(batch[p]).keg_id)) =>
              LET r == Head(batch[p])
                  k == r.keg_id
              IN  kegs'[k].full_weight =
                      IF r.full_weight # None THEN Val(r.full_weight) ELSE kegs[k].full_weight
        /\ \A p \in Procs : \A n \in CalibReadings :
              (Ends(p, n) /\ n.full_weight # None) =>
                  data'[n.keg_id].fill_percent =
                      FillPct(n.weight, Val(n.full_weight), empty_weight) ]_vars

\* C27: the stored full_weight of a keg is never at or below the configured
\* empty weight.
C27_FullAboveEmpty ==
    \A k \in DOMAIN kegs : kegs[k].full_weight > empty_weight

\* C28: a pour processed by this instance changes neither the history the
\* other instance holds in memory nor the history the other instance has
\* persisted and will load at its next start.
C28_HistoryNotShared ==
    [][ (\E p \in Procs : Handles(p) \/ (pc[p] = "saving" /\ pc'[p] = "idle")) =>
          /\ peer_history' = peer_history
          /\ (LoadHistory(stored) = peer_history => LoadHistory(stored') = peer_history) ]_vars

\* C29: a display record changes or appears only in the step that ends the
\* processing of a reading of its keg, as the record rebuilt from the
\* registry; every keg with a display record is in the registry.
C29_DisplayOnlyRebuilt ==
    [][ /\ DOMAIN data' \subseteq DOMAIN kegs'
        /\ \A k \in DOMAIN data' :
              (k \notin DOMAIN data \/ data'[k] # data[k]) =>
                  \E p \in Procs : \E n \in Readings :
                      Ends(p, n) /\ n.keg_id = k /\ data'[k] = DisplayRecord(n, kegs'[k]) ]_vars

\* C30: whatever has been written to the preferences store holds both
\* display_units and keg_config with their current values.
C30_PrefsComplete ==
    prefs # None => Val(prefs) = PrefsOf(display_units, keg_config)

\* C31: a unit selection leaves the registry, the history and every display
\* record as they are, and the base sensors (weight, temperature, last pour,
\* daily consumption) report the same value after it as before.
C31_UnitsOnlyAtPresentation ==
    [][ (asked' # asked /\ Val(asked').entity \in DOMAIN UnitOptions) =>
          /\ UNCHANGED <<kegs, history, stored, data>>
          /\ \A k \in Kegs : \A t \in BaseSensors : native_value(k, t)' = native_value(k, t) ]_vars

\* pounds are selected, keg1 has a display record and its display sensor
\* shows pounds while the weight sensor shows kg
C31_Witness ==
    /\ "weight" \in DOMAIN display_units /\ display_units["weight"] = "lb"
    /\ "keg1" \in DOMAIN data
    /\ native_value("keg1", "weight") = Some(data["keg1"].weight)
    /\ native_value("keg1", "weight_display") # native_value("keg1", "weight")

\* C38: a select called with an option that is not in its list changes
\* neither the stored selection nor the preferences store and fires no
\* notification; the option a select reports is in its list, or absent when
\* the device list is empty.
C38_SelectRejectsUnknown ==
    /\ [](/\ \A kind \in DOMAIN UnitOptions : unit_current_option(kind) \in UnitOptions[kind]
          /\ IF device_options = <<>> THEN device_current_option = None
             ELSE device_current_option # None
                  /\ InSeq(Val(device_current_option), device_options))
    /\ [][ asked' # asked =>
            LET call == Val(asked')
                known == IF call.entity = "device" THEN InSeq(call.option, device_options)
                         ELSE call.option \in UnitOptions[call.entity]
            IN  ~known => UNCHANGED <<selected_device, display_units, prefs, events>> ]_vars

\* an unknown unit and an unknown device have been turned down after a
\* selection of each kind was made
C38_Witness ==
    /\ asked = Call("device", "keg9")
    /\ selected_device = Some("keg1")
    /\ devices = <<"keg2", "keg1">>
    /\ "weight" \in DOMAIN display_units /\ display_units["weight"] = "lb"

\* the stream URL is missing, or the override map is given and is not an
\* object of numbers
ConfigError(e) ==
    \/ e.ws_url \in {"none", ""}
    \/ ParsePerKegFull(e.options.per_keg_full).warned

\* C32: a setup of an entry with a configuration error returns the failure
\* signal, registers no instance state and starts no activity.
C32_ConfigErrorAborts ==
    (setup # None /\ ConfigError(Val(setup).entry)) =>
        /\ Val(setup).result = FALSE
        /\ Val(setup).registered = FALSE
        /\ Val(setup).started = {}

\* C37: a submitted override map that does not parse as JSON brings the form
\* back with invalid_json and leaves the entry's options as they were; one
\* that parses replaces the options.
C37_InvalidJsonRejected ==
    [][ (flow' # flow /\ Val(flow').user_input # None) =>
          LET user_input == Val(Val(flow').user_input)
          IN  IF JsonLoads(user_input.per_keg_full).ok
              THEN Val(flow').type = "create_entry" /\ config_entry'.options = user_input
              ELSE /\ Val(flow').type = "form"
                   /\ Val(flow').errors = "invalid_json"
                   /\ config_entry' = config_entry ]_vars

\* C33: while no reading is partway through processing, every display
\* record shows the registry state of its keg: the rounded last_weight, the
\* fill percent computed from it, the rounded daily_consumed and last_pour.
C33_DisplayAgreesWithRegistry ==
    Quiet =>
        \A k \in DOMAIN data :
            /\ k \in DOMAIN kegs
            /\ data[k].weight = Round(kegs[k].last_weight, 10)
            /\ data[k].fill_percent = FillPct(kegs[k].last_weight, kegs[k].full_weight, empty_weight)
            /\ data[k].daily_consumed = Round(kegs[k].daily_consumed, 1)
            /\ data[k].last_pour = Round(kegs[k].last_pour, 1)

\* C34: a reading of a known keg that is lower than the keg's last_weight
\* by no more than the threshold records no pour, leaves daily_consumed and
\* last_pour as they are and becomes the new last_weight, so that a run of
\* such readings never adds up to a pour.
C34_SmallDropsNeverPour ==
    [][ \A p \in Procs :
          LET r == Head(batch[p])
              k == r.keg_id
          IN  (/\ Handles(p)
               /\ Known(k)
               /\ kegs[k].last_weight - r.weight > 0
               /\ kegs[k].last_weight - r.weight <= pour_threshold) =>
                  /\ history' = history
                  /\ kegs'[k].daily_consumed = kegs[k].daily_consumed
                  /\ kegs'[k].last_pour = kegs[k].last_pour
                  /\ kegs'[k].last_weight = r.weight ]_vars

\* three readings of keg1 have been processed, the last one at 18.846 kg
\* after 18.85 and 19.0 at a threshold of 0.15, and no pour is on record
C34_Witness ==
    /\ pour_threshold = DEFAULT_POUR_THRESHOLD
    /\ events = <<"keg1", "keg1", "keg1">>
    /\ kegs["keg1"].last_weight = 18846
    /\ kegs["keg1"].last_pour_time = None
    /\ kegs["keg1"].daily_consumed = 0
    /\ NewEntries = {}

\* C35: a number entity reads back the value last written through it.
C35_NumberReadsBack ==
    \A k \in DOMAIN written : \A key \in DOMAIN written[k] :
        number_native_value(k, key) = Some(written[k][key])

\* C36: once the platform is set up, the entity set of a keg id was added
\* exactly once, and every keg that had a display record at setup or was
\* announced by an update event since has its entities.
C36_EntitiesCreatedOnce ==
    platform # None =>
        /\ \A e \in BagToSet(Entities) : CopiesIn(e, Entities) = 1
        /\ \A k \in Val(platform).known \cup {Heard[i] : i \in 1..Len(Heard)} :
               \A st_key \in SENSOR_TYPES : BagIn(<<k, st_key>>, Entities)

====
